---- MODULE Spec2Model ----
(***************************************************************************)
(* Mileage / fuel logger bot (src/main.py): the three-step conversation    *)
(* (odometer -> distribution -> confirmation), the per-user session store, *)
(* the spreadsheet ledger behind it and the read cache kept of it.         *)
(*                                                                         *)
(* Numbers.  Kilometres and odometer readings are whole numbers.  Litres   *)
(* are carried in units of 1/10000 l, so that round(km * rate / 100, 4)    *)
(* with rate 11.66 is km * 1166 exactly.  A spreadsheet cell is a record   *)
(* [t, v]: t is the textual form that was written ("int" for str(int),     *)
(* "comma_dec" for str(float) with '.' replaced by ',', "date", "text").   *)
(*                                                                         *)
(* Updates.  One action per handler; an action is the whole handler run,   *)
(* including the remote calls it makes.  A remote call to the spreadsheet  *)
(* either succeeds or raises; the chat replies always succeed.             *)
(***************************************************************************)
EXTENDS Integers, Sequences, FiniteSets, TLC

\* ------------------------------------------------------------------ bounds
MaxOdo == 2
MaxKm == 1
MaxDataRows == 2
MaxDiff == 7
MaxCalcKm == 3
MaxDeliveries == 3

\* --------------------------------------------------------------- constants
OWNER_ID == 270380991
Stranger == OWNER_ID + 1
Users == {OWNER_ID, Stranger}
Chats == {"private"}

WAITING_FOR_ODOMETER == 0
WAITING_FOR_DISTRIBUTION == 1
CONFIRMATION == 2
END == 0 - 1

\* litres per 100 km, in hundredths
CITY_RATE == 1166
DISTRICT_RATE == 1117
HIGHWAY_RATE == 1019

VARIABLES
    sheet,            \* the remote spreadsheet: a sequence of rows
    sheet_cache,      \* the module-level snapshot of sheet.get_all_values()
    user_data_store,  \* user id -> session
    conversations,    \* <<chat, user>> -> conversation state of conv_handler
    last,             \* the update handled last and what the bot did for it
    running           \* the handle_confirmation calls that have not returned

vars == <<sheet, sheet_cache, user_data_store, conversations, last, running>>

\* ------------------------------------------------------------------- cells
IntCell(n) == [t |-> "int", v |-> n]
CommaDecCell(x) == [t |-> "comma_dec", v |-> x]
DateCell == [t |-> "date", v |-> 0]
TextCell(i) == [t |-> "text", v |-> i]

HeaderRow ==
    <<TextCell(1), TextCell(2), TextCell(3), TextCell(4), TextCell(5),
      TextCell(6), TextCell(7), TextCell(8), TextCell(9), TextCell(10),
      TextCell(11), TextCell(12), TextCell(13), TextCell(14)>>

\* float(cell): only a plain number parses; a comma decimal, a date or a
\* caption raises ValueError.
IsNumeric(cell) == cell.t = "int"

\* ---------------------------------------------------------------- sessions
NoSession ==
    [present |-> FALSE, full |-> FALSE, odometer |-> 0, diff |-> 0,
     city_km |-> 0, city_exact |-> 0, city_rounded |-> 0,
     district_km |-> 0, district_exact |-> 0, district_rounded |-> 0,
     highway_km |-> 0, highway_exact |-> 0, highway_rounded |-> 0,
     total_exact |-> 0, total_rounded |-> 0]

OdometerSession(odometer, diff) ==
    [NoSession EXCEPT !.present = TRUE, !.odometer = odometer, !.diff = diff]

\* the fraction cut off
RoundDown(x, unit) == x \div unit

\* round(x) of Python 3 on a float that is x / unit: to the nearest whole
\* number, a tie going to the even neighbour.
RoundHalfEven(x, unit) ==
    LET q == x \div unit
        r == x % unit
    IN  IF 2 * r < unit THEN q
        ELSE IF 2 * r > unit THEN q + 1
        ELSE IF q % 2 = 0 THEN q ELSE q + 1

\* every category charged at the city rate
calcCityRate(litres_per_100km, km) ==
    LET exact == km * CITY_RATE
    IN  [exact |-> exact, rounded |-> RoundHalfEven(exact, 10000)]

calc(litres_per_100km, km) ==
    LET exact == km * litres_per_100km
    IN  [exact |-> exact, rounded |-> RoundHalfEven(exact, 10000)]

\* a handler that goes on without looking whether a session exists
EmptyUnchecked(data) == FALSE

\* "if not data:" on user_data_store.get(user_id, {}): no entry is kept
Empty(data) == ~data.present

\* ------------------------------------------------------------ message text
\* A message is a sequence of whitespace-separated words.  A word is a
\* number, one of the three category keywords, or some other word.
Num(n) == [k |-> "num", v |-> n]
Word(k) == [k |-> k, v |-> 0]

Labelled(c, d, h) ==
    <<Word("city"), Num(c), Word("district"), Num(d), Word("highway"), Num(h)>>

\* The messages tried as a distribution: labelled triples of whole numbers
\* (most in the city, least on the highway), one with a negative value, a
\* lone city value, bare numbers, and messages that do not parse.
DistributionTexts ==
    {Labelled(t[1], t[2], t[3]) :
        t \in {t \in (0..MaxKm) \X (0..MaxKm) \X (0..MaxKm) :
                  t[1] >= t[2] /\ t[2] >= t[3]}}
    \cup {Labelled(MaxKm + 1, 0 - 1, 0)}
    \cup {<<Word("city"), Num(c)>> : c \in 1..MaxKm}
    \cup {<<Num(MaxKm), Num(0), Num(0)>>}
    \cup {<<Word("city")>>, <<Word("city"), Word("junk")>>, <<Word("junk")>>}

OdometerTexts ==
    {<<Num(n)>> : n \in (0 - 1)..MaxOdo} \cup {<<Word("junk")>>}

\* text.strip().replace(",", ".") followed by .replace(".", "", 1).isdigit():
\* one word made of digits (a sign is no digit).
IsDigitText(text) == Len(text) = 1 /\ text[1].k = "num" /\ text[1].v >= 0

\* text.split(word)[1].strip().split(): the words that follow the first
\* occurrence of word, up to its next occurrence.
AfterFirst(text, word) ==
    LET first == CHOOSE i \in 1..Len(text) :
                    text[i] = word /\ \A j \in 1..(i - 1) : text[j] # word
        later == {j \in (first + 1)..Len(text) : text[j] = word}
        stop == IF later = {} THEN Len(text) + 1
                ELSE CHOOSE j \in later : \A m \in later : j <= m
    IN  SubSeq(text, first + 1, stop - 1)

IsKeyword(word) == word.k \in {"city", "district", "highway"}

\* The loop over text.split() that fills city_km, district_km, highway_km;
\* ok is FALSE when it leaves by IndexError or ValueError.
RECURSIVE ScanWords(_, _, _)
ScanWords(text, i, acc) ==
    IF i > Len(text) THEN acc
    ELSE IF ~IsKeyword(text[i]) THEN ScanWords(text, i + 1, acc)
    ELSE LET rest == AfterFirst(text, text[i])
         IN  IF rest = <<>> \/ rest[1].k # "num"
             THEN [acc EXCEPT !.ok = FALSE]
             ELSE ScanWords(text, i + 1,
                            [acc EXCEPT ![text[i].k] = rest[1].v])

ParseDistribution(text) ==
    ScanWords(text, 1, [ok |-> TRUE, city |-> 0, district |-> 0, highway |-> 0])

Abs(x) == IF x < 0 THEN 0 - x ELSE x

\* abs(total_entered - data["diff"]) > 1
SumMismatch(total_entered, diff) == Abs(total_entered - diff) > 1

\* data.update({...}) of handle_distribution
DistributionSession(data, city_km, district_km, highway_km) ==
    LET c == calc(CITY_RATE, city_km)
        d == calc(DISTRICT_RATE, district_km)
        h == calc(HIGHWAY_RATE, highway_km)
        total_exact == c.exact + d.exact + h.exact
    IN  [data EXCEPT
            !.full = TRUE,
            !.city_km = city_km, !.city_exact = c.exact,
            !.city_rounded = c.rounded,
            !.district_km = district_km, !.district_exact = d.exact,
            !.district_rounded = d.rounded,
            !.highway_km = highway_km, !.highway_exact = h.exact,
            !.highway_rounded = h.rounded,
            !.total_exact = total_exact,
            !.total_rounded = RoundHalfEven(total_exact, 10000)]

\* the row with its odometer and diff columns exchanged
BuildRowDiffFirst(data) ==
    <<DateCell,
      IntCell(data.diff),
      IntCell(data.odometer),
      IntCell(data.city_km),
      CommaDecCell(data.city_exact),
      IntCell(data.city_rounded),
      IntCell(data.district_km),
      CommaDecCell(data.district_exact),
      IntCell(data.district_rounded),
      IntCell(data.highway_km),
      CommaDecCell(data.highway_exact),
      IntCell(data.highway_rounded),
      CommaDecCell(data.total_exact),
      IntCell(data.total_rounded)>>

\* row = [...] of handle_confirmation
BuildRow(data) ==
    <<DateCell,
      IntCell(data.odometer),
      IntCell(data.diff),
      IntCell(data.city_km),
      CommaDecCell(data.city_exact),
      IntCell(data.city_rounded),
      IntCell(data.district_km),
      CommaDecCell(data.district_exact),
      IntCell(data.district_rounded),
      IntCell(data.highway_km),
      CommaDecCell(data.highway_exact),
      IntCell(data.highway_rounded),
      CommaDecCell(data.total_exact),
      IntCell(data.total_rounded)>>

\* ------------------------------------------------------------- dispatching
\* conv_handler: the entry point takes every button press of an idle
\* conversation; a state's handlers come before the fallbacks; the entry
\* point is not tried again inside a conversation (allow_reentry is off).
CallbackRoute(state, data) ==
    IF state = END THEN "handle_button"
    ELSE IF state = CONFIRMATION THEN "handle_confirmation"
    ELSE IF data = "cancel" THEN "cancel"
    ELSE "none"

MessageRoute(state) ==
    IF state = WAITING_FOR_ODOMETER THEN "handle_odometer"
    ELSE IF state = WAITING_FOR_DISTRIBUTION THEN "handle_distribution"
    ELSE "none"

ButtonData ==
    {"add", "delete", "report", "last", "stats", "reset", "help",
     "retry_odometer", "retry_distribution",
     "confirm_yes", "confirm_no", "cancel"}

State(chat, user) == conversations[<<chat, user>>]

\* What a handler returns: a state, END, or nothing (the state is kept).
None == 0 - 2

Returned(chat, user, result) ==
    IF result = None THEN conversations
    ELSE [conversations EXCEPT ![<<chat, user>>] = result]

\* the guard left out: every user passes
IsOwnerUnchecked(user) == user \in Users

\* query.from_user.id != OWNER_ID (update.effective_user.id in the
\* message handlers)
IsOwner(user) == user = OWNER_ID

NoRow == 0 - 1

Handled(handler, chat, user, data, text, reply) ==
    [handler |-> handler, chat |-> chat, user |-> user,
     state |-> State(chat, user), data |-> data, text |-> text,
     reply |-> reply, appended |-> FALSE,
     format_row |-> NoRow, delete_row |-> NoRow, failed |-> ""]

\* ------------------------------------------------------------ remote sheet
\* update_sheet_cache(): the snapshot, or [] when the read raises
UpdateSheetCache(rows, read_ok) == IF read_ok THEN rows ELSE <<>>

\* sheet.delete_rows(index)
DeleteRows(rows, index) ==
    IF index \in 1..Len(rows)
    THEN SubSeq(rows, 1, index - 1) \o SubSeq(rows, index + 1, Len(rows))
    ELSE rows

\* format_cell_range(sheet, f"A{row_index}:N{row_index}", cell_format):
\* the call raises when the remote end fails, and always for row 0, which
\* is no row of a sheet (rows count from 1).
FormatRaises(row_index, remote) ==
    row_index < 1 \/ remote = "format_cell_range raises"

\* the remote call that raised while the handler ran, "" when none did
Failed(remote) == IF remote = "ok" THEN "" ELSE remote

IsDataRow(row) == IsNumeric(row[2])

\* how many rows of the sheet are records (the bound of the model counts them)
DataRows(rows) == Cardinality({i \in 1..Len(rows) : IsDataRow(rows[i])})

\* int(float(sheet_cache[-1][1])) can be evaluated
LastOdoReadable(rows) == IsNumeric(rows[Len(rows)][2])

LastOdo(rows) == rows[Len(rows)][2].v

\* The text of "report" and "last": one line for each of the last 5 rows of
\* the cache, made of row[0] .. row[4].
ReportLine(row) == SubSeq(row, 1, 5)

Report(rows) ==
    LET first == IF Len(rows) > 5 THEN Len(rows) - 4 ELSE 1
    IN  [i \in 1..(Len(rows) - first + 1) |-> ReportLine(rows[first + i - 1])]

\* ----------------------------------------------------------------- handlers
Init ==
    /\ running = {}
    /\ sheet \in {<<>>, <<HeaderRow>>}
    /\ \E read_ok \in BOOLEAN : sheet_cache = UpdateSheetCache(sheet, read_ok)
    /\ user_data_store = [u \in Users |-> NoSession]
    /\ conversations = [key \in Chats \X Users |-> END]
    /\ last = [handler |-> "init", chat |-> CHOOSE c \in Chats : TRUE,
               user |-> OWNER_ID, state |-> END, data |-> "", text |-> <<>>,
               reply |-> "", appended |-> FALSE,
               format_row |-> NoRow, delete_row |-> NoRow, failed |-> ""]

\* /start
start(chat, user) ==
    /\ UNCHANGED running
    /\ last' = Handled("start", chat, user, "/start", <<>>,
                       IF IsOwner(user) THEN "menu" ELSE "denied")
    /\ UNCHANGED <<sheet, sheet_cache, user_data_store, conversations>>

\* /stats
stats(chat, user) ==
    /\ UNCHANGED running
    /\ last' = Handled("stats", chat, user, "/stats", <<>>,
                       IF ~IsOwner(user) THEN "denied"
                       ELSE IF sheet_cache = <<>> THEN "table_empty"
                       ELSE "stats")
    /\ UNCHANGED <<sheet, sheet_cache, user_data_store, conversations>>

\* A button press in an idle conversation.
handle_button(chat, user, data) ==
    /\ UNCHANGED running
    /\ CallbackRoute(State(chat, user), data) = "handle_button"
    /\ LET h(reply) == Handled("handle_button", chat, user, data, <<>>, reply)
           data_ == user_data_store[user]
       IN
       IF ~IsOwner(user) THEN
            /\ last' = h("denied")
            /\ UNCHANGED <<sheet, sheet_cache, user_data_store, conversations>>
       ELSE IF data \in {"add", "retry_odometer"} THEN
            IF Len(sheet_cache) >= 2 /\ ~LastOdoReadable(sheet_cache) THEN
                /\ last' = h("exception")
                /\ UNCHANGED <<sheet, sheet_cache, user_data_store,
                               conversations>>
            ELSE
                /\ last' = h("ask_odometer")
                /\ conversations' = Returned(chat, user, WAITING_FOR_ODOMETER)
                /\ UNCHANGED <<sheet, sheet_cache, user_data_store>>
       ELSE IF data = "delete" THEN
            IF sheet_cache # <<>> THEN
                \E remote \in {"delete_rows raises", "get_all_values raises",
                                "ok"} :
                    IF remote # "delete_rows raises" THEN
                        /\ sheet' = DeleteRows(sheet, Len(sheet_cache))
                        /\ sheet_cache' =
                               UpdateSheetCache(sheet', remote = "ok")
                        /\ last' = [h("deleted") EXCEPT
                                        !.delete_row = Len(sheet_cache),
                                        !.failed = Failed(remote)]
                        /\ UNCHANGED <<user_data_store, conversations>>
                    ELSE
                        /\ last' = [h("delete_error") EXCEPT
                                        !.failed = Failed(remote)]
                        /\ UNCHANGED <<sheet, sheet_cache, user_data_store,
                                       conversations>>
            ELSE
                /\ last' = h("table_empty")
                /\ UNCHANGED <<sheet, sheet_cache, user_data_store,
                               conversations>>
       ELSE IF data \in {"report", "last", "stats"} THEN
            /\ last' = h(IF sheet_cache = <<>> THEN "table_empty" ELSE data)
            /\ UNCHANGED <<sheet, sheet_cache, user_data_store, conversations>>
       ELSE IF data = "reset" THEN
            /\ user_data_store' = [user_data_store EXCEPT ![user] = NoSession]
            /\ last' = h("reset_done")
            /\ UNCHANGED <<sheet, sheet_cache, conversations>>
       ELSE IF data = "help" THEN
            /\ last' = h("help")
            /\ UNCHANGED <<sheet, sheet_cache, user_data_store, conversations>>
       ELSE IF data = "retry_distribution" THEN
            IF Empty(data_) THEN
                /\ last' = h("data_lost")
                /\ conversations' = Returned(chat, user, END)
                /\ UNCHANGED <<sheet, sheet_cache, user_data_store>>
            ELSE IF Len(sheet_cache) >= 2 /\ ~LastOdoReadable(sheet_cache) THEN
                /\ last' = h("exception")
                /\ UNCHANGED <<sheet, sheet_cache, user_data_store,
                               conversations>>
            ELSE
                /\ last' = h("ask_distribution")
                /\ conversations' =
                       Returned(chat, user, WAITING_FOR_DISTRIBUTION)
                /\ UNCHANGED <<sheet, sheet_cache, user_data_store>>
       ELSE \* confirm_yes, confirm_no, cancel: no branch, nothing returned
            /\ last' = h("")
            /\ UNCHANGED <<sheet, sheet_cache, user_data_store, conversations>>

\* A text message while the odometer is awaited.
handle_odometer(chat, user, text) ==
    /\ UNCHANGED running
    /\ MessageRoute(State(chat, user)) = "handle_odometer"
    /\ LET h(reply) == Handled("handle_odometer", chat, user, "", text, reply)
           odometer == text[1].v
           rows == sheet_cache
           prev_odo == IF Len(rows) >= 2 THEN LastOdo(rows) ELSE 0
           diff == odometer - prev_odo
       IN
       IF ~IsOwner(user) THEN
            /\ last' = h("denied")
            /\ conversations' = Returned(chat, user, END)
            /\ UNCHANGED <<sheet, sheet_cache, user_data_store>>
       ELSE IF ~IsDigitText(text) THEN
            /\ last' = h("enter_number")
            /\ conversations' = Returned(chat, user, WAITING_FOR_ODOMETER)
            /\ UNCHANGED <<sheet, sheet_cache, user_data_store>>
       ELSE IF Len(rows) >= 2 /\ ~LastOdoReadable(rows) THEN
            /\ last' = h("exception")
            /\ UNCHANGED <<sheet, sheet_cache, user_data_store, conversations>>
       ELSE IF diff <= 0 THEN
            /\ last' = h("odometer_must_grow")
            /\ conversations' = Returned(chat, user, WAITING_FOR_ODOMETER)
            /\ UNCHANGED <<sheet, sheet_cache, user_data_store>>
       ELSE
            /\ user_data_store' =
                   [user_data_store EXCEPT
                        ![user] = OdometerSession(odometer, diff)]
            /\ last' = h("ask_distribution")
            /\ conversations' = Returned(chat, user, WAITING_FOR_DISTRIBUTION)
            /\ UNCHANGED <<sheet, sheet_cache>>

\* A text message while the distribution is awaited.
handle_distribution(chat, user, text) ==
    /\ UNCHANGED running
    /\ MessageRoute(State(chat, user)) = "handle_distribution"
    /\ LET h(reply) ==
               Handled("handle_distribution", chat, user, "", text, reply)
           data == user_data_store[user]
           km == ParseDistribution(text)
           total_entered == km.city + km.district + km.highway
       IN
       IF ~IsOwner(user) THEN
            /\ last' = h("denied")
            /\ conversations' = Returned(chat, user, END)
            /\ UNCHANGED <<sheet, sheet_cache, user_data_store>>
       ELSE IF Empty(data) THEN
            /\ last' = h("data_lost")
            /\ conversations' = Returned(chat, user, END)
            /\ UNCHANGED <<sheet, sheet_cache, user_data_store>>
       ELSE IF ~km.ok THEN
            /\ last' = h("bad_format")
            /\ conversations' = Returned(chat, user, WAITING_FOR_DISTRIBUTION)
            /\ UNCHANGED <<sheet, sheet_cache, user_data_store>>
       ELSE IF SumMismatch(total_entered, data.diff) THEN
            /\ last' = h("sum_mismatch")
            /\ conversations' = Returned(chat, user, WAITING_FOR_DISTRIBUTION)
            /\ UNCHANGED <<sheet, sheet_cache, user_data_store>>
       ELSE
            /\ user_data_store' =
                   [user_data_store EXCEPT
                        ![user] = DistributionSession(data, km.city,
                                                      km.district, km.highway)]
            /\ last' = h("summary")
            /\ conversations' = Returned(chat, user, CONFIRMATION)
            /\ UNCHANGED <<sheet, sheet_cache>>

\* the entry read and left in the store
NotPopped(store, user) == store

\* user_data_store.pop(user_id, ...): the store without the user's entry
Popped(store, user) == [store EXCEPT ![user] = NoSession]

\* What handle_confirmation does between "await query.answer()" and its
\* return: the owner check, the session taken out of the store, the row
\* appended, formatted and the cache refreshed, the answer sent.  The calls
\* to the spreadsheet are synchronous, so nothing else runs in between.
confirmation(chat, user, data) ==
    LET h(reply) ==
            Handled("handle_confirmation", chat, user, data, <<>>, reply)
        data_ == user_data_store[user]
        row == BuildRow(data_)
        row_index == Len(sheet_cache)
    IN
    IF ~IsOwner(user) THEN
         /\ last' = h("denied")
         /\ UNCHANGED <<sheet, sheet_cache, user_data_store>>
    ELSE IF data \in {"confirm_no", "cancel"} THEN
         /\ user_data_store' = Popped(user_data_store, user)
         /\ last' = h("cancelled")
         /\ UNCHANGED <<sheet, sheet_cache>>
    ELSE IF Empty(data_) THEN
         /\ user_data_store' = Popped(user_data_store, user)
         /\ last' = h("data_not_found")
         /\ UNCHANGED <<sheet, sheet_cache>>
    ELSE
         /\ user_data_store' = Popped(user_data_store, user)
         /\ \E remote \in {"append_row raises", "format_cell_range raises",
                           "get_all_values raises", "ok"} :
                 IF remote = "append_row raises" THEN
                     /\ last' = [h("save_error") EXCEPT
                                     !.failed = Failed(remote)]
                     /\ UNCHANGED <<sheet, sheet_cache>>
                 ELSE
                     /\ DataRows(sheet) < MaxDataRows
                     /\ sheet' = Append(sheet, row)
                     /\ IF ~FormatRaises(row_index, remote) THEN
                            /\ sheet_cache' =
                                   UpdateSheetCache(sheet', remote = "ok")
                            /\ last' = [h("saved") EXCEPT
                                            !.appended = TRUE,
                                            !.format_row = row_index,
                                            !.failed = Failed(remote)]
                        ELSE
                            /\ sheet_cache' = sheet_cache
                            /\ last' = [h("save_error") EXCEPT
                                            !.appended = TRUE,
                                            !.failed =
                                                "format_cell_range raises"]

\* A button press while the confirmation is awaited, the handler running
\* from its dispatch to its return (ConversationHandler.END on every path)
\* with no other update handled in between.
handle_confirmation(chat, user, data) ==
    /\ UNCHANGED running
    /\ CallbackRoute(State(chat, user), data) = "handle_confirmation"
    /\ confirmation(chat, user, data)
    /\ conversations' = Returned(chat, user, END)

\* The "cancel" button inside a conversation, where no state handler took it.
cancel(chat, user) ==
    /\ UNCHANGED running
    /\ CallbackRoute(State(chat, user), "cancel") = "cancel"
    /\ user_data_store' = [user_data_store EXCEPT ![user] = NoSession]
    /\ last' = Handled("cancel", chat, user, "cancel", <<>>,
                       "operation_cancelled")
    /\ conversations' = Returned(chat, user, END)
    /\ UNCHANGED <<sheet, sheet_cache>>

\* An update no handler takes: telegram_app drops it.
UnhandledButton(chat, user, data) ==
    /\ UNCHANGED running
    /\ CallbackRoute(State(chat, user), data) = "none"
    /\ last' = Handled("none", chat, user, data, <<>>, "")
    /\ UNCHANGED <<sheet, sheet_cache, user_data_store, conversations>>

UnhandledMessage(chat, user, text) ==
    /\ UNCHANGED running
    /\ MessageRoute(State(chat, user)) = "none"
    /\ text \in OdometerTexts
    /\ last' = Handled("none", chat, user, "", <<>>, "")
    /\ UNCHANGED <<sheet, sheet_cache, user_data_store, conversations>>

Next ==
    \/ \E chat \in Chats, user \in Users : start(chat, user)
    \/ \E chat \in Chats, user \in Users : stats(chat, user)
    \/ \E chat \in Chats, user \in Users, data \in ButtonData :
            handle_button(chat, user, data)
    \/ \E chat \in Chats, user \in Users, text \in OdometerTexts :
            handle_odometer(chat, user, text)
    \/ \E chat \in Chats, user \in Users, text \in DistributionTexts :
            handle_distribution(chat, user, text)
    \/ \E chat \in Chats, user \in Users, data \in ButtonData :
            handle_confirmation(chat, user, data)
    \/ \E chat \in Chats, user \in Users : cancel(chat, user)
    \/ \E chat \in Chats, user \in Users, data \in ButtonData :
            UnhandledButton(chat, user, data)
    \/ \E chat \in Chats, user \in Users :
            UnhandledMessage(chat, user, <<Word("junk")>>)

Spec == Init /\ [][Next]_vars

\* ------------------------------------------- the distribution step alone
\* The example of the prompts: "*місто* {int(diff/3)} *район* {int(diff/3)}
\* *траса* {int(diff/3)}" (diff is above 0 in every session).
Example(diff) == diff \div 3

ExampleText(diff) == Labelled(Example(diff), Example(diff), Example(diff))

\* The messages tried against a session: every labelled triple of small
\* values, the triple 100 / 60 / 40 and one kilometre more, bare numbers,
\* fewer than three categories, no number.
DistributionCases ==
    {Labelled(t[1], t[2], t[3]) :
        t \in (0..MaxCalcKm) \X (0..MaxCalcKm) \X (0..MaxCalcKm)}
    \cup {Labelled(100, 60, 40), Labelled(100, 60, 41)}
    \cup {<<Num(100), Num(60), Num(40)>>, <<Num(70), Num(70), Num(70)>>,
          <<Num(1), Num(1), Num(1)>>, <<Num(1), Num(0), Num(0)>>}
    \cup {<<Word("city"), Num(c)>> : c \in 1..MaxCalcKm}
    \cup {<<Word("city"), Num(1), Word("district"), Num(1)>>}
    \cup {<<Word("city")>>, <<Word("junk")>>}

DiffCases == (1..MaxDiff) \cup {200}

\* The owner has pressed "add" on a ledger that holds the header only and
\* has sent a first odometer reading, which is the diff.
InitDistribution ==
    /\ running = {}
    /\ sheet = <<HeaderRow>>
    /\ sheet_cache = UpdateSheetCache(sheet, TRUE)
    /\ \E diff \in DiffCases :
          /\ user_data_store =
                 [u \in Users |-> IF u = OWNER_ID
                                  THEN OdometerSession(diff, diff)
                                  ELSE NoSession]
          /\ last = [handler |-> "handle_odometer", chat |-> "private",
                     user |-> OWNER_ID, state |-> WAITING_FOR_ODOMETER,
                     data |-> "", text |-> <<Num(diff)>>,
                     reply |-> "ask_distribution", appended |-> FALSE,
                     format_row |-> NoRow, delete_row |-> NoRow,
                     failed |-> ""]
    /\ conversations =
           [key \in Chats \X Users |->
               IF key[2] = OWNER_ID THEN WAITING_FOR_DISTRIBUTION ELSE END]

NextDistribution ==
    \E text \in DistributionCases
                 \cup {ExampleText(user_data_store[OWNER_ID].diff)} :
        handle_distribution("private", OWNER_ID, text)

SpecDistribution == InitDistribution /\ [][NextDistribution]_vars

\* ------------------------------------- deliveries of the confirm buttons
\* Each webhook request awaits telegram_app.process_update(update) on the
\* event loop of the server, so a second button press can be dispatched
\* while a handle_confirmation call is suspended at "await query.answer()"
\* or at its last "await query.edit_message_text(...)": conv_handler still
\* holds CONFIRMATION for the conversation until the call returns.
ConfirmButtons == {"confirm_yes", "confirm_no", "cancel"}

\* conv_handler dispatches a button press to handle_confirmation; the call
\* runs up to "await query.answer()".
confirmation_dispatched(chat, user, data) ==
    /\ CallbackRoute(State(chat, user), data) = "handle_confirmation"
    /\ Cardinality(running) < MaxDeliveries
    /\ LET n == CHOOSE n \in 1..MaxDeliveries :
                    /\ \A run \in running : run.n # n
                    /\ \A m \in 1..(n - 1) : \E run \in running : run.n = m
       IN  running' = running \cup {[n |-> n, chat |-> chat, user |-> user,
                                     data |-> data, at |-> "answer"]}
    /\ UNCHANGED <<sheet, sheet_cache, user_data_store, conversations, last>>

\* The call goes on to its last await.
confirmation_runs(n) ==
    \E run \in running :
        /\ run.n = n
        /\ run.at = "answer"
        /\ confirmation(run.chat, run.user, run.data)
        /\ running' = (running \ {run}) \cup {[run EXCEPT !.at = "reply"]}
        /\ UNCHANGED conversations

\* The call returns ConversationHandler.END and conv_handler drops the
\* conversation.
confirmation_returns(n) ==
    \E run \in running :
        /\ run.n = n
        /\ run.at = "reply"
        /\ conversations' = Returned(run.chat, run.user, END)
        /\ running' = running \ {run}
        /\ UNCHANGED <<sheet, sheet_cache, user_data_store, last>>

\* The owner has gone through "add", a first odometer reading and a
\* distribution: one session waits for its confirmation.
InitConfirm ==
    /\ running = {}
    /\ sheet \in {<<>>, <<HeaderRow>>}
    /\ \E read_ok \in BOOLEAN : sheet_cache = UpdateSheetCache(sheet, read_ok)
    /\ \E diff \in 1..MaxDiff :
          /\ user_data_store =
                 [u \in Users |->
                     IF u = OWNER_ID
                     THEN DistributionSession(OdometerSession(diff, diff),
                                              diff, 0, 0)
                     ELSE NoSession]
          /\ last = [handler |-> "handle_distribution", chat |-> "private",
                     user |-> OWNER_ID, state |-> WAITING_FOR_DISTRIBUTION,
                     data |-> "", text |-> Labelled(diff, 0, 0),
                     reply |-> "summary", appended |-> FALSE,
                     format_row |-> NoRow, delete_row |-> NoRow,
                     failed |-> ""]
    /\ conversations =
           [key \in Chats \X Users |->
               IF key[2] = OWNER_ID THEN CONFIRMATION ELSE END]

\* The buttons of the confirmation message, pressed any number of times:
\* taken by handle_confirmation while the conversation is in CONFIRMATION,
\* by the entry point once it has ended.
NextConfirm ==
    \/ \E data \in ConfirmButtons :
            confirmation_dispatched("private", OWNER_ID, data)
    \/ \E n \in 1..MaxDeliveries : confirmation_runs(n)
    \/ \E n \in 1..MaxDeliveries : confirmation_returns(n)
    \/ \E data \in ConfirmButtons : handle_button("private", OWNER_ID, data)

SpecConfirm == InitConfirm /\ [][NextConfirm]_vars

\* ------------------------------------------------- the owner in two chats
\* conv_handler keeps one conversation per (chat, user) (per_chat and
\* per_user are on) while user_data_store is keyed by the user alone: the
\* owner who talks to the bot in a second chat shares the session entry.
TwoChats == {"private", "group"}

TwoChatTexts ==
    {Labelled(1, 0, 0), Labelled(MaxKm + 1, 0 - 1, 0), <<Word("junk")>>}

TwoChatOdometerTexts == {<<Num(1)>>, <<Num(MaxOdo)>>, <<Word("junk")>>}

TwoChatButtons ==
    {"add", "last", "reset", "retry_distribution",
     "confirm_yes", "confirm_no", "cancel"}

InitTwoChats ==
    /\ running = {}
    /\ sheet \in {<<>>, <<HeaderRow>>}
    /\ \E read_ok \in BOOLEAN : sheet_cache = UpdateSheetCache(sheet, read_ok)
    /\ user_data_store = [u \in Users |-> NoSession]
    /\ conversations = [key \in TwoChats \X Users |-> END]
    /\ last = [handler |-> "init", chat |-> "private",
               user |-> OWNER_ID, state |-> END, data |-> "", text |-> <<>>,
               reply |-> "", appended |-> FALSE,
               format_row |-> NoRow, delete_row |-> NoRow, failed |-> ""]

\* The updates of the owner, in either chat.
NextTwoChats ==
    \E chat \in TwoChats :
        \/ start(chat, OWNER_ID)
        \/ stats(chat, OWNER_ID)
        \/ \E data \in TwoChatButtons : handle_button(chat, OWNER_ID, data)
        \/ \E text \in TwoChatOdometerTexts :
                handle_odometer(chat, OWNER_ID, text)
        \/ \E text \in TwoChatTexts :
                handle_distribution(chat, OWNER_ID, text)
        \/ \E data \in TwoChatButtons :
                handle_confirmation(chat, OWNER_ID, data)
        \/ cancel(chat, OWNER_ID)
        \/ \E data \in TwoChatButtons :
                UnhandledButton(chat, OWNER_ID, data)
        \/ UnhandledMessage(chat, OWNER_ID, <<Word("junk")>>)

SpecTwoChats == InitTwoChats /\ [][NextTwoChats]_vars

\* ------------------------------------------------------------------ claims
HasDataRow(rows) == \E i \in 1..Len(rows) : IsDataRow(rows[i])

LastDataRow(rows) ==
    rows[CHOOSE i \in 1..Len(rows) :
            IsDataRow(rows[i])
            /\ \A j \in (i + 1)..Len(rows) : ~IsDataRow(rows[j])]

HasHeader(rows) == rows # <<>> /\ rows[1] = HeaderRow

KmSum(data) == data.city_km + data.district_km + data.highway_km

\* C1: a session that reaches CONFIRMATION has city_km + district_km +
\* highway_km equal to its diff exactly, and every data row of the ledger
\* has city km + district km + highway km equal to its distance delta.
C1_DistributionSumsToDiff ==
    /\ (last.handler = "handle_distribution"
        /\ State(last.chat, last.user) = CONFIRMATION)
       => KmSum(user_data_store[last.user]) = user_data_store[last.user].diff
    /\ \A i \in 1..Len(sheet) :
          IsDataRow(sheet[i])
          => sheet[i][4].v + sheet[i][7].v + sheet[i][10].v = sheet[i][3].v

\* C2: with at least one data row in the ledger, an odometer entry that is
\* not above the last row's odometer is rejected (the conversation stays in
\* WAITING_FOR_ODOMETER and no session is stored), and an accepted entry
\* stores diff = entry - last row's odometer.
C2_OdometerMonotonic ==
    (last.handler = "handle_odometer" /\ IsDigitText(last.text)
     /\ HasDataRow(sheet))
    => LET odometer == last.text[1].v
           prev == LastDataRow(sheet)[2].v
           data == user_data_store[last.user]
       IN  IF odometer <= prev
           THEN /\ State(last.chat, last.user) = WAITING_FOR_ODOMETER
                /\ ~data.present
           ELSE /\ State(last.chat, last.user) = WAITING_FOR_DISTRIBUTION
                /\ data.present
                /\ data.diff = odometer - prev

\* C3: an update of a user other than the owner changes no session, reads,
\* writes, deletes and formats nothing in the ledger, leaves the cache as it
\* is, and that user's conversation stays idle, whatever the update is and
\* whatever state the owner's conversation is in.
C3_AccessGuard ==
    [][last'.user # OWNER_ID
       => /\ user_data_store' = user_data_store
          /\ sheet' = sheet
          /\ sheet_cache' = sheet_cache
          /\ conversations' = conversations
          /\ ~last'.appended
          /\ last'.format_row = NoRow
          /\ last'.delete_row = NoRow
          /\ \A chat \in Chats : conversations'[<<chat, last'.user>>] = END
      ]_vars

\* C3 witness: a stranger pressed "delete" while the ledger had a row the
\* owner could have deleted and the owner was in the middle of a conversation.
C3_Witness ==
    /\ last.user = Stranger
    /\ last.handler = "handle_button"
    /\ last.data = "delete"
    /\ last.reply = "denied"
    /\ sheet_cache # <<>>
    /\ \E chat \in Chats : State(chat, OWNER_ID) = CONFIRMATION

\* C4: a row is appended only when the button pressed in CONFIRMATION is
\* confirm_yes.
C4_AppendOnlyOnConfirmYes ==
    last.appended => last.data = "confirm_yes"

\* C5: in every conversation state the cancel button and the reset button
\* remove the user's session, end the conversation and leave the ledger
\* unchanged.
C5_CancelResetEverywhere ==
    (IsOwner(last.user) /\ last.data \in {"cancel", "reset"})
    => /\ ~user_data_store[last.user].present
       /\ State(last.chat, last.user) = END
       /\ ~last.appended
       /\ last.delete_row = NoRow

C7_FormatsAppendedRow ==
    last.reply = "saved" => last.format_row = Len(sheet)

\* C8: delete removes a row only when a data row exists beyond the header;
\* with no data row it leaves the ledger unchanged and answers that the
\* table is empty; the header row is never deleted.
C8_DeleteKeepsHeader ==
    [][/\ (last'.handler = "handle_button" /\ last'.data = "delete"
           /\ IsOwner(last'.user) /\ ~HasDataRow(sheet))
          => (sheet' = sheet /\ last'.reply = "table_empty")
       /\ HasHeader(sheet) => HasHeader(sheet')
      ]_vars

\* C9: the ledger only grows by an appended row or loses its final row: a
\* successful delete removes exactly the last row and leaves the others.
C9_DeleteRemovesLastRow ==
    [][/\ last'.reply = "deleted"
          => (sheet # <<>> /\ sheet' = SubSeq(sheet, 1, Len(sheet) - 1))
       /\ \/ sheet' = sheet
          \/ (Len(sheet') = Len(sheet) + 1
              /\ SubSeq(sheet', 1, Len(sheet)) = sheet)
          \/ (sheet # <<>> /\ sheet' = SubSeq(sheet, 1, Len(sheet) - 1))
      ]_vars

\* C10: once a handler that changed the ledger (an append on confirm, a
\* delete) has finished, sheet_cache equals the ledger.
C10_CacheFreshAfterWrite ==
    (last.appended \/ last.delete_row # NoRow) => sheet_cache = sheet

\* C11: an input validation failure changes nothing.  A non-numeric odometer
\* or one whose diff is not above 0 leaves the conversation in
\* WAITING_FOR_ODOMETER; a distribution that does not parse or whose three
\* values do not sum to diff leaves it in WAITING_FOR_DISTRIBUTION; in both
\* cases the session store, the cache and the ledger stay as they were.
C11_ValidationFailureChangesNothing ==
    [][LET user == last'.user
           text == last'.text
           rows == sheet_cache
           prev_odo == IF Len(rows) >= 2 THEN LastOdo(rows) ELSE 0
           km == ParseDistribution(text)
           frame == /\ user_data_store' = user_data_store
                    /\ sheet_cache' = sheet_cache
                    /\ sheet' = sheet
       IN  /\ (/\ last'.handler = "handle_odometer"
               /\ IsOwner(user)
               /\ last'.reply # "exception"
               /\ (~IsDigitText(text) \/ text[1].v - prev_odo <= 0))
              => (conversations'[<<last'.chat, user>>] = WAITING_FOR_ODOMETER
                  /\ frame)
           /\ (/\ last'.handler = "handle_distribution"
               /\ IsOwner(user)
               /\ user_data_store[user].present
               /\ (~km.ok
                   \/ km.city + km.district + km.highway
                      # user_data_store[user].diff))
              => (conversations'[<<last'.chat, user>>]
                      = WAITING_FOR_DISTRIBUTION
                  /\ frame)
      ]_vars

\* C12: a missing session is terminal.  When a distribution message, a
\* button of the confirmation step or a "retry distribution" press is
\* handled for the owner and user_data_store holds no entry for them, the
\* handler ends the conversation, the ledger is not written and no session
\* entry is created.
C12_MissingSessionIsTerminal ==
    [][(/\ IsOwner(last'.user)
        /\ ~user_data_store[last'.user].present
        /\ \/ last'.handler \in {"handle_distribution", "handle_confirmation"}
           \/ (last'.handler = "handle_button"
               /\ last'.data = "retry_distribution"))
       => /\ conversations'[<<last'.chat, last'.user>>] = END
          /\ sheet' = sheet
          /\ ~last'.appended
          /\ last'.format_row = NoRow
          /\ ~user_data_store'[last'.user].present
      ]_vars

\* C12 witness: "confirm_yes" was pressed in a conversation that had reached
\* CONFIRMATION, no session entry was found, and nothing was saved.
C12_Witness ==
    /\ last.handler = "handle_confirmation"
    /\ last.data = "confirm_yes"
    /\ last.state = CONFIRMATION
    /\ last.reply = "data_not_found"
    /\ State(last.chat, last.user) = END

\* C13: when a remote ledger call of a conversation handler raises (read of
\* all rows, append, format, delete), the handler answers with an error
\* message, returns normally, and a failed confirm leaves the conversation
\* ended.
C13_RemoteFailureIsReported ==
    [][last'.failed # ""
       => /\ last'.reply \in {"save_error", "delete_error"}
          /\ last'.handler = "handle_confirmation"
             => conversations'[<<last'.chat, last'.user>>] = END
      ]_vars

\* C14: for every accepted distribution the exact litres of a category are
\* km * rate / 100 at the rates 11.66 (city), 11.17 (district) and 10.19
\* (highway), the kilometres being those of the message, and the total exact
\* litres are the sum of the three (litres in units of 1/10000 l).
C14_ExactLitres ==
    (last.handler = "handle_distribution" /\ last.reply = "summary")
    => LET data == user_data_store[last.user]
           km == ParseDistribution(last.text)
       IN  /\ data.city_km = km.city
           /\ data.district_km = km.district
           /\ data.highway_km = km.highway
           /\ data.city_exact = km.city * 1166
           /\ data.district_exact = km.district * 1117
           /\ data.highway_exact = km.highway * 1019
           /\ data.total_exact
              = data.city_exact + data.district_exact + data.highway_exact

\* C14 witness: 100 / 60 / 40 km against a diff of 200 was accepted and gave
\* 11.66 + 6.702 + 4.076 = 22.438 l.
C14_Witness ==
    /\ last.handler = "handle_distribution"
    /\ last.reply = "summary"
    /\ last.text = Labelled(100, 60, 40)
    /\ user_data_store[OWNER_ID].diff = 200
    /\ user_data_store[OWNER_ID].city_exact = 116600
    /\ user_data_store[OWNER_ID].district_exact = 67020
    /\ user_data_store[OWNER_ID].highway_exact = 40760
    /\ user_data_store[OWNER_ID].total_exact = 224380

\* litres (in 1/10000 l) rounded to 2 decimals, a half going up
HalfUpTwoDecimals(exact) == ((exact + 50) \div 100) * 100

\* C15 as stated: for every accepted distribution the rounded litres of each
\* category and of the total are the exact litres rounded to 2 decimals, a
\* half going up; 100 / 60 / 40 km give a total of 22.438 l exact and
\* 22.44 l rounded.
C15_RoundedToTwoDecimals ==
    (last.handler = "handle_distribution" /\ last.reply = "summary")
    => LET data == user_data_store[last.user]
       IN  /\ data.city_rounded * 10000 = HalfUpTwoDecimals(data.city_exact)
           /\ data.district_rounded * 10000
              = HalfUpTwoDecimals(data.district_exact)
           /\ data.highway_rounded * 10000
              = HalfUpTwoDecimals(data.highway_exact)
           /\ data.total_rounded * 10000 = HalfUpTwoDecimals(data.total_exact)
           /\ last.text = Labelled(100, 60, 40)
              => (data.total_exact = 224380
                  /\ data.total_rounded * 10000 = 224400)

\* the whole number of litres nearest to exact (in 1/10000 l)
NearestLitre(exact, rounded) == 2 * Abs(rounded * 10000 - exact) <= 10000

\* C15, amended: for every accepted distribution the rounded litres of each
\* category and of the total are whole numbers, the nearest to the exact
\* litres; the rounded total is taken from the exact total; 100 / 60 / 40
\* km give a total of 22.438 l exact and 22 l rounded.
C15_RoundedToWholeLitres ==
    (last.handler = "handle_distribution" /\ last.reply = "summary")
    => LET data == user_data_store[last.user]
       IN  /\ NearestLitre(data.city_exact, data.city_rounded)
           /\ NearestLitre(data.district_exact, data.district_rounded)
           /\ NearestLitre(data.highway_exact, data.highway_rounded)
           /\ NearestLitre(data.total_exact, data.total_rounded)
           /\ last.text = Labelled(100, 60, 40)
              => (data.total_exact = 224380 /\ data.total_rounded = 22)

\* C15 witness: 100 / 60 / 40 km were accepted: 12, 7 and 4 l rounded, and
\* 22 l for the total of 22.438 l.
C15_Witness ==
    /\ last.handler = "handle_distribution"
    /\ last.reply = "summary"
    /\ last.text = Labelled(100, 60, 40)
    /\ user_data_store[OWNER_ID].city_rounded = 12
    /\ user_data_store[OWNER_ID].district_rounded = 7
    /\ user_data_store[OWNER_ID].highway_rounded = 4
    /\ user_data_store[OWNER_ID].total_rounded = 22

\* C16: when "last" is pressed right after a confirm that saved a row, the
\* answer shows that row: its final line reproduces the odometer, the diff,
\* and the kilometres and exact litres of the city, the district and the
\* highway (columns 2, 3, 4, 5, 7, 8, 10, 11 of the row).
C16_LastShowsSavedRow ==
    [][(/\ last.handler = "handle_confirmation"
        /\ last.reply = "saved"
        /\ last'.handler = "handle_button"
        /\ last'.data = "last"
        /\ IsOwner(last'.user))
       => /\ last'.reply = "last"
          /\ Report(sheet_cache') # <<>>
          /\ LET shown == Report(sheet_cache')
                 line == shown[Len(shown)]
                 row == sheet[Len(sheet)]
             IN  \A i \in {2, 3, 4, 5, 7, 8, 10, 11} :
                     i \in DOMAIN line /\ line[i] = row[i]
      ]_vars

\* C17: the reporting queries ("last", "report", "stats" as buttons, the
\* /stats command) and "help" are read-only: whenever one of them is handled
\* for the owner, in whatever conversation state, the ledger, the cache, the
\* session store and the conversation states are left as they were.
C17_QueriesAreReadOnly ==
    [][(/\ IsOwner(last'.user)
        /\ last'.handler # "none"
        /\ last'.data \in {"last", "report", "stats", "help", "/stats"})
       => /\ sheet' = sheet
          /\ sheet_cache' = sheet_cache
          /\ user_data_store' = user_data_store
          /\ conversations' = conversations
      ]_vars

\* three numbers and no other word
IsBareTriple(text) == Len(text) = 3 /\ \A i \in 1..3 : text[i].k = "num"

\* C18: a distribution of three bare numbers is read as city, district,
\* highway in that order: when they sum to diff it is accepted with those
\* kilometres and the conversation is in CONFIRMATION, otherwise it is
\* rejected and the conversation stays in WAITING_FOR_DISTRIBUTION.
C18_BareNumbersArePositional ==
    (last.handler = "handle_distribution" /\ IsOwner(last.user)
     /\ IsBareTriple(last.text) /\ last.reply # "data_lost")
    => LET data == user_data_store[last.user]
           text == last.text
       IN  IF text[1].v + text[2].v + text[3].v = data.diff
           THEN /\ State(last.chat, last.user) = CONFIRMATION
                /\ data.city_km = text[1].v
                /\ data.district_km = text[2].v
                /\ data.highway_km = text[3].v
           ELSE State(last.chat, last.user) = WAITING_FOR_DISTRIBUTION

\* how many numbers a message holds
NumberCount(text) == Cardinality({i \in 1..Len(text) : text[i].k = "num"})

\* C19: a distribution message in which three numbers are not found (only
\* "city N", no number at all) is rejected whatever the diff is: the
\* conversation stays in WAITING_FOR_DISTRIBUTION and the session keeps no
\* kilometres; a category that is missing is not taken as 0.
C19_FewerThanThreeRejected ==
    (last.handler = "handle_distribution" /\ IsOwner(last.user)
     /\ last.reply # "data_lost" /\ NumberCount(last.text) # 3)
    => /\ State(last.chat, last.user) = WAITING_FOR_DISTRIBUTION
       /\ ~user_data_store[last.user].full

\* C20: once an odometer entry has been accepted, the three numbers of the
\* example in the prompt sum to the session's diff, and the example sent
\* back as the distribution is accepted: the conversation reaches
\* CONFIRMATION.
C20_ExampleSumsToDiff ==
    LET data == user_data_store[last.user]
        km == ParseDistribution(ExampleText(data.diff))
    IN  /\ (last.handler = "handle_odometer"
            /\ last.reply = "ask_distribution")
           => km.city + km.district + km.highway = data.diff
        /\ (last.handler = "handle_distribution" /\ IsOwner(last.user)
            /\ last.reply # "data_lost"
            /\ last.text = ExampleText(data.diff))
           => State(last.chat, last.user) = CONFIRMATION

\* C21: the kilometres of the city, the district and the highway are never
\* negative, in a session that has reached CONFIRMATION and in a data row
\* of the ledger, and a distribution message that holds a negative value is
\* rejected: the conversation stays in WAITING_FOR_DISTRIBUTION.
C21_KilometresNotNegative ==
    /\ \A user \in Users :
          user_data_store[user].full
          => /\ user_data_store[user].city_km >= 0
             /\ user_data_store[user].district_km >= 0
             /\ user_data_store[user].highway_km >= 0
    /\ \A i \in 1..Len(sheet) :
          IsDataRow(sheet[i])
          => (sheet[i][4].v >= 0 /\ sheet[i][7].v >= 0 /\ sheet[i][10].v >= 0)
    /\ (/\ last.handler = "handle_distribution"
        /\ IsOwner(last.user)
        /\ last.reply # "data_lost"
        /\ \E i \in 1..Len(last.text) :
              last.text[i].k = "num" /\ last.text[i].v < 0)
       => State(last.chat, last.user) = WAITING_FOR_DISTRIBUTION

\* C22: a session that has reached CONFIRMATION gives at most one row in
\* the ledger, however often its confirm button is delivered and however
\* the handle_confirmation calls overlap; a call that finds no session
\* answers that there is no data and appends nothing.
C22_AtMostOneRow ==
    [][/\ DataRows(sheet') <= 1
       /\ (/\ last'.handler = "handle_confirmation"
           /\ last' # last
           /\ last'.data = "confirm_yes"
           /\ ~user_data_store[last'.user].present)
          => (sheet' = sheet /\ last'.reply = "data_not_found")
      ]_vars

\* C22 witness: two presses of "confirm_yes" were dispatched in CONFIRMATION
\* before either call went on; the first has saved the row, the second has
\* found no session, and neither has returned yet.
C22_Witness ==
    /\ DataRows(sheet) = 1
    /\ last.handler = "handle_confirmation"
    /\ last.data = "confirm_yes"
    /\ last.reply = "data_not_found"
    /\ State("private", OWNER_ID) = CONFIRMATION
    /\ Cardinality({run \in running :
                        run.data = "confirm_yes" /\ run.at = "reply"}) = 2

\* the data rows of the ledger, in their order
RECURSIVE DataRowsOf(_)
DataRowsOf(rows) ==
    IF rows = <<>> THEN <<>>
    ELSE IF IsDataRow(rows[1]) THEN <<rows[1]>> \o DataRowsOf(Tail(rows))
    ELSE DataRowsOf(Tail(rows))

\* C23: in every reachable state the odometers of successive data rows of
\* the ledger are strictly increasing, and the diff of a data row is its
\* odometer minus the odometer of the data row before it (minus 0 for the
\* first).
C23_LedgerConsistent ==
    LET records == DataRowsOf(sheet)
    IN  \A i \in 1..Len(records) :
            LET prev == IF i = 1 THEN 0 ELSE records[i - 1][2].v
            IN  /\ records[i][2].v > prev
                /\ records[i][3].v = records[i][2].v - prev

\* C24: a confirm that is answered with the save error has left the ledger
\* as it was, and a confirm has added a row only when it is answered with
\* the success message.
C24_SaveErrorMeansNoRow ==
    [][(last'.handler = "handle_confirmation" /\ last' # last)
       => /\ last'.reply = "save_error" => sheet' = sheet
          /\ sheet' # sheet => last'.reply = "saved"
      ]_vars

\* C25: in every reachable state, a conversation of the owner that is in
\* WAITING_FOR_DISTRIBUTION has a session entry (odometer and diff) in the
\* store, and one that is in CONFIRMATION has an entry that also holds the
\* kilometres and litres, in whichever chat the conversation is and however
\* many conversations the owner has.
C25_SessionMatchesConversation ==
    \A key \in DOMAIN conversations :
        key[2] = OWNER_ID
        => /\ conversations[key] = WAITING_FOR_DISTRIBUTION
              => user_data_store[OWNER_ID].present
           /\ conversations[key] = CONFIRMATION
              => (user_data_store[OWNER_ID].present
                  /\ user_data_store[OWNER_ID].full)

\* C26: once handle_confirmation has handled a button of the owner (confirm,
\* decline, cancel or any other), whether the append and the formatting
\* succeeded or failed, the owner's session entry is gone and the
\* conversation is ended; a failed save keeps nothing for a retry.
C26_ConfirmationAlwaysEnds ==
    (last.handler = "handle_confirmation" /\ IsOwner(last.user))
    => /\ ~user_data_store[last.user].present
       /\ State(last.chat, last.user) = END
       /\ last.state = CONFIRMATION

\* C26 witness: a confirm whose append raised: nothing was saved, the
\* session is gone and the conversation has ended.
C26_Witness ==
    /\ last.handler = "handle_confirmation"
    /\ last.data = "confirm_yes"
    /\ last.reply = "save_error"
    /\ last.failed = "append_row raises"
    /\ ~last.appended
    /\ ~user_data_store[OWNER_ID].present
    /\ State(last.chat, OWNER_ID) = END

====
